---- MODULE Spec2Model ----
(***************************************************************************)
(* Model of the JWE key-management family RSAES (src/jwe/alg/rsaes.rs) and *)
(* of the content-encryption family AES-GCM (src/jwe/enc/aes_gcm.rs).      *)
(*                                                                         *)
(* Byte strings are sequences of 0..255.  Option<T> is a sequence of       *)
(* length at most one: <<>> is None, <<v>> is Some(v).  A Result is a      *)
(* record [kind |-> "Ok", val |-> v], [kind |-> "Err", err |-> e,          *)
(* msg |-> m]; a panic (todo!()) is the outcome [kind |-> "Panic"].        *)
(***************************************************************************)
EXTENDS Integers, Sequences, FiniteSets, TLC

VARIABLES
    algorithm,   \* the RsaesJweAlgorithm value the caller works with
    jwk,         \* the JWK the caller holds
    header,      \* JweHeader: its algorithm field, an Option of a name
    encrypter,   \* Option of the RsaesJweEncrypter the caller holds
    decrypter,   \* Option of the RsaesJweDecrypter the caller holds
    made,        \* Option of the record of the last factory call
    sent,        \* Option of the record of the last RsaesJweEncrypter::encrypt call
    rcvd,        \* Option of the record of the last RsaesJweDecrypter::decrypt call
    panicked,    \* TRUE once a call ended in a panic
    gcm_enc,     \* Option of the record of the last AesGcmJweEncryption::encrypt call
    gcm_dec      \* Option of the record of the last AesGcmJweEncryption::decrypt call

vars == <<algorithm, jwk, header, encrypter, decrypter, made, sent, rcvd,
          panicked, gcm_enc, gcm_dec>>

gcm_vars == <<gcm_enc, gcm_dec>>

None == <<>>
Some(v) == <<v>>

Ok(v) == [kind |-> "Ok", val |-> v]
Err(e, m) == [kind |-> "Err", err |-> e, msg |-> m]
Panic == [kind |-> "Panic"]

InvalidKeyFormat == "InvalidKeyFormat"
InvalidJweFormat == "InvalidJweFormat"

IsOk(r) == r.kind = "Ok"
IsErr(r, e) == r.kind = "Err" /\ r.err = e

(***************************************************************************)
(* The variants and their names.                                           *)
(***************************************************************************)
RsaesJweAlgorithm == {"Rsa1_5", "RsaOaep", "RsaOaep256", "RsaOaep384", "RsaOaep512"}

name(alg) ==
    CASE alg = "Rsa1_5" -> "RSA1_5"
      [] alg = "RsaOaep" -> "RSA-OAEP"
      [] alg = "RsaOaep256" -> "RSA-OAEP-256"
      [] alg = "RsaOaep384" -> "RSA-OAEP-384"
      [] alg = "RsaOaep512" -> "RSA-OAEP-512"

OID_RSA_ENCRYPTION == <<1, 2, 840, 113549, 1, 1, 1>>
OID_RSAES_OAEP == <<1, 2, 840, 113549, 1, 1, 7>>
OID_P_SPECIFIED == <<1, 2, 840, 113549, 1, 1, 9>>
OID_SHA1 == <<1, 3, 14, 3, 2, 26>>
OID_SHA256 == <<2, 16, 840, 1, 101, 3, 4, 2, 1>>
OID_SHA384 == <<2, 16, 840, 1, 101, 3, 4, 2, 2>>
OID_SHA512 == <<2, 16, 840, 1, 101, 3, 4, 2, 3>>
OID_MGF1 == <<1, 2, 840, 113549, 1, 1, 8>>

\* hash_oid: no arm for Rsa1_5 (unreachable!()); to_pkcs8 calls it only for
\* the OAEP variants; a CASE with no matching arm cannot be evaluated.
hash_oid(alg) ==
    CASE alg = "RsaOaep" -> OID_SHA1
      [] alg = "RsaOaep256" -> OID_SHA256
      [] alg = "RsaOaep384" -> OID_SHA384
      [] alg = "RsaOaep512" -> OID_SHA512

(***************************************************************************)
(* base64::decode_config(val, URL_SAFE_NO_PAD).  A string is the sequence  *)
(* of its characters' ASCII codes.                                         *)
(***************************************************************************)
Sextet(c) ==
    CASE c >= 65 /\ c <= 90 -> c - 65        \* A-Z
      [] c >= 97 /\ c <= 122 -> c - 71       \* a-z
      [] c >= 48 /\ c <= 57 -> c + 4         \* 0-9
      [] c = 45 -> 62                        \* -
      [] c = 95 -> 63                        \* _
      [] OTHER -> -1

DecodedByte(sx, i) ==
    LET g == 4 * ((i - 1) \div 3)
        r == (i - 1) % 3
    IN  CASE r = 0 -> sx[g + 1] * 4 + sx[g + 2] \div 16
          [] r = 1 -> (sx[g + 2] % 16) * 16 + sx[g + 3] \div 4
          [] r = 2 -> (sx[g + 3] % 4) * 64 + sx[g + 4]

\* Option of the decoded bytes: None is a DecodeError.
decode_config(s) ==
    LET L == Len(s)
        sx == [i \in 1..L |-> Sextet(s[i])]
    IN  IF \E i \in 1..L : sx[i] = -1 THEN None
        ELSE IF L % 4 = 1 THEN None
        ELSE IF L % 4 = 2 /\ sx[L] % 16 # 0 THEN None
        ELSE IF L % 4 = 3 /\ sx[L] % 4 # 0 THEN None
        ELSE Some([i \in 1..((L * 6) \div 8) |-> DecodedByte(sx, i)])

(***************************************************************************)
(* The JWK accessor (crate::jwk::Jwk) and JSON values.  A JWK is a record  *)
(* [kty, use, key_ops, alg, kid, params]; a parameter is an Option of a    *)
(* JSON value [type |-> "String" or "Number", s |-> characters].           *)
(***************************************************************************)
key_type(k) == k.kty
key_use(k) == k.use
algorithm_of(k) == k.alg
key_id_of(k) == k.kid
parameter(k, f) == k.params[f]

\* key_ops absent: the key is for every operation.
is_for_key_operation(k, op) == k.key_ops = None \/ op \in k.key_ops[1]

\* decode_parameter with an absent parameter read as the empty string.
decode_parameter_absent_as_empty(k, f) ==
    LET v == parameter(k, f)
    IN  IF v = None THEN Ok(<<>>)
        ELSE IF v[1].type # "String" THEN Err(InvalidKeyFormat, "must be a string")
        ELSE LET d == decode_config(v[1].s)
             IN  IF d = None THEN Err(InvalidKeyFormat, "base64")
                 ELSE Ok(d[1])

\* One "let x = match jwk.parameter(..) { .. }" block of the factories.
decode_parameter(k, f) ==
    LET v == parameter(k, f)
    IN  IF v = None THEN Err(InvalidKeyFormat, "is required")
        ELSE IF v[1].type # "String" THEN Err(InvalidKeyFormat, "must be a string")
        ELSE LET d == decode_config(v[1].s)
             IN  IF d = None THEN Err(InvalidKeyFormat, "base64")
                 ELSE Ok(d[1])

(***************************************************************************)
(* DER (crate::der::DerBuilder), as the structure it encodes.  An INTEGER  *)
(* built from an unsigned big-endian slice is its magnitude: the slice     *)
(* without its leading zero bytes.                                         *)
(***************************************************************************)
RECURSIVE StripZeros(_)
StripZeros(b) ==
    IF b = <<>> THEN <<>>
    ELSE IF b[1] = 0 THEN StripZeros(Tail(b))
    ELSE b

append_integer_from_be_slice(b) == StripZeros(b)

to_pkcs8(alg, input, is_public) ==
    [version |-> IF is_public THEN None ELSE Some(0),
     algorithm |->
        IF alg = "Rsa1_5"
        THEN [oid |-> OID_RSA_ENCRYPTION, params |-> None]
        ELSE [oid |-> OID_RSAES_OAEP,
              params |-> Some([hashFunc |-> hash_oid(alg),
                               maskGenFunc |-> <<OID_MGF1, hash_oid(alg)>>,
                               pSourceFunc |-> OID_P_SPECIFIED])],
     key |-> [string |-> IF is_public THEN "BIT STRING" ELSE "OCTET STRING",
              content |-> input]]

\* PKey::public_key_from_der / private_key_from_der (OpenSSL): a fallible
\* call.  A well-formed rsaEncryption structure parses; whether the library
\* knows id-RSAES-OAEP as a key type depends on the library, so for it the
\* caller draws the outcome from DerOutcomes.
DerOutcomes(alg) == IF alg = "Rsa1_5" THEN {TRUE} ELSE BOOLEAN

public_key_from_der(pkcs8, der_ok) ==
    IF der_ok /\ pkcs8.version = None /\ pkcs8.key.string = "BIT STRING"
    THEN Some(pkcs8.key.content)
    ELSE None

private_key_from_der(pkcs8, der_ok) ==
    IF der_ok /\ pkcs8.version = Some(0) /\ pkcs8.key.string = "OCTET STRING"
    THEN Some(pkcs8.key.content)
    ELSE None

(***************************************************************************)
(* The RSA key handle: Rsa::size() is BN_num_bytes(n).                     *)
(***************************************************************************)
BitLen(b) == CHOOSE w \in 1..8 : 2 ^ (w - 1) <= b /\ b < 2 ^ w

num_bits(mag) == IF mag = <<>> THEN 0 ELSE 8 * (Len(mag) - 1) + BitLen(mag[1])

rsa_size(key) == (num_bits(key.n) + 7) \div 8

MinKeyBits == 2048

check_key(pkey) ==
    IF rsa_size(pkey) * 8 < MinKeyBits
    THEN Err(InvalidKeyFormat, "key length must be 2048 or more.")
    ELSE Ok(TRUE)

(***************************************************************************)
(* The factories.                                                          *)
(***************************************************************************)
PublicFields == <<"n", "e">>
PrivateFields == <<"n", "e", "d", "p", "q", "dp", "dq", "qi">>

\* The parameters are decoded in order; the first that fails ends the call.
BadFields(k, fields) == {i \in 1..Len(fields) : ~IsOk(decode_parameter(k, fields[i]))}
FirstBad(k, fields) ==
    LET bad == BadFields(k, fields)
    IN  fields[CHOOSE i \in bad : \A j \in bad : i <= j]

encrypter_use_ok(k) == key_use(k) = None \/ key_use(k) = Some("enc")

encrypter_from_jwk(alg, k, der_ok) ==
    IF key_type(k) # "RSA" THEN Err(InvalidKeyFormat, "A parameter kty must be RSA")
    ELSE IF ~encrypter_use_ok(k) THEN Err(InvalidKeyFormat, "A parameter use must be enc")
    ELSE IF ~is_for_key_operation(k, "encrypt") \/ ~is_for_key_operation(k, "wrapKey")
    THEN Err(InvalidKeyFormat, "A parameter key_ops must contains encrypt and wrapKey.")
    ELSE IF algorithm_of(k) # None /\ algorithm_of(k) # Some(name(alg))
    THEN Err(InvalidKeyFormat, "A parameter alg must be the name")
    ELSE IF BadFields(k, PublicFields) # {}
    THEN decode_parameter(k, FirstBad(k, PublicFields))
    ELSE
        LET n == decode_parameter(k, "n").val
            e == decode_parameter(k, "e").val
            der == [n |-> append_integer_from_be_slice(n),
                    e |-> append_integer_from_be_slice(e)]
            pkcs8 == to_pkcs8(alg, der, TRUE)
            public_key == public_key_from_der(pkcs8, der_ok)
        IN  IF public_key = None THEN Err(InvalidKeyFormat, "der")
            ELSE IF ~IsOk(check_key(public_key[1])) THEN check_key(public_key[1])
            ELSE Ok([algorithm |-> alg,
                     public_key |-> public_key[1],
                     key_id |-> key_id_of(k)])

decrypter_use_ok(k) == key_use(k) = None \/ key_use(k) = Some("sig")

decrypter_from_jwk(alg, k, der_ok) ==
    IF key_type(k) # "RSA" THEN Err(InvalidKeyFormat, "A parameter kty must be RSA")
    ELSE IF ~decrypter_use_ok(k) THEN Err(InvalidKeyFormat, "A parameter use must be sig")
    ELSE IF ~is_for_key_operation(k, "decrypt") \/ ~is_for_key_operation(k, "unwrapKey")
    THEN Err(InvalidKeyFormat, "A parameter key_ops must contains decrypt and unwrapKey.")
    ELSE IF algorithm_of(k) # None /\ algorithm_of(k) # Some(name(alg))
    THEN Err(InvalidKeyFormat, "A parameter alg must be the name")
    ELSE IF BadFields(k, PrivateFields) # {}
    THEN decode_parameter(k, FirstBad(k, PrivateFields))
    ELSE
        LET der == [f \in {"n", "e", "d", "p", "q", "dp", "dq", "qi"} |->
                        append_integer_from_be_slice(decode_parameter(k, f).val)]
            pkcs8 == to_pkcs8(alg, der, FALSE)
            private_key == private_key_from_der(pkcs8, der_ok)
        IN  IF private_key = None THEN Err(InvalidKeyFormat, "der")
            ELSE IF ~IsOk(check_key(private_key[1])) THEN check_key(private_key[1])
            ELSE Ok([algorithm |-> alg,
                     private_key |-> private_key[1],
                     key_id |-> key_id_of(k)])

(***************************************************************************)
(* RSA (openssl::rsa::Rsa).  The primitive x -> x^e mod n is a permutation *)
(* of the blocks of a key, and x -> x^d mod n is its inverse.  A block is  *)
(* [n, len, em, k]: the len bytes of em^(e^k) mod n, where em is an        *)
(* encoded message [bt, msg], the message msg under the block type bt.     *)
(* The public primitive adds one to k, the private one subtracts one, and  *)
(* a padding check reads em only from a block whose k is 0.                *)
(***************************************************************************)
PaddingOverhead(padding) ==
    CASE padding = "PKCS1" -> 11            \* RSA_PKCS1_PADDING_SIZE
      [] padding = "PKCS1_OAEP" -> 42       \* 2 * SHA_DIGEST_LENGTH + 2

EncryptionBlockType(padding) ==
    CASE padding = "PKCS1" -> "PKCS1_type_2"
      [] padding = "PKCS1_OAEP" -> "OAEP_SHA1"

rsa_public_op(rsa, blk) ==
    IF blk.n = rsa.n THEN [blk EXCEPT !.k = @ + 1]
    ELSE [n |-> rsa.n, len |-> rsa_size(rsa), em |-> [bt |-> "raw", msg |-> <<>>], k |-> 0]

\* Rsa::public_encrypt: Option of the block written to `to`; its length is
\* the value returned.  None is an ErrorStack.
public_encrypt(rsa, from, padding) ==
    IF Len(from) > rsa_size(rsa) - PaddingOverhead(padding) THEN None
    ELSE Some(rsa_public_op(rsa,
                [n |-> rsa.n, len |-> rsa_size(rsa),
                 em |-> [bt |-> EncryptionBlockType(padding), msg |-> from],
                 k |-> 0]))

\* Rsa::public_decrypt: the signature-recovery operation.  It applies the
\* public primitive and removes block type 1; it knows no OAEP padding.
public_decrypt(rsa, from, padding) ==
    IF from.len > rsa_size(rsa) THEN None
    ELSE LET x == rsa_public_op(rsa, from)
         IN  IF padding = "PKCS1"
             THEN IF x.k = 0 /\ x.em.bt = "PKCS1_type_1" THEN Some(x.em.msg) ELSE None
             ELSE None

\* openssl::rand::rand_bytes on a buffer of key_len bytes: the bytes of the
\* random stream numbered seed.
rand_bytes(key_len, seed) == [i \in 1..key_len |-> (seed * 85 + i * seed) % 256]

(***************************************************************************)
(* JweHeader (crate::jwe::JweHeader): its algorithm field.                 *)
(***************************************************************************)
set_algorithm(hdr, alg_name) == Some(alg_name)

(***************************************************************************)
(* RsaesJweEncrypter::encrypt.  [result, header]: what the call returns    *)
(* and the header it leaves.                                               *)
(***************************************************************************)
\* encrypt_header writing the name only into a header that has none.
encrypt_header_if_unset(enc, hdr) ==
    IF hdr = None THEN set_algorithm(hdr, name(enc.algorithm)) ELSE hdr

\* The first statement of encrypt: header.set_algorithm(self.algorithm.name()).
encrypt_header(enc, hdr) == set_algorithm(hdr, name(enc.algorithm))

encrypt(enc, hdr, key_len, rand_ok, seed) ==
    LET hdr1 == encrypt_header(enc, hdr)
        key == rand_bytes(key_len, seed)
        rsa == enc.public_key
        wrap(padding) ==
            LET encrypted_key == public_encrypt(rsa, key, padding)
            IN  IF encrypted_key = None THEN Err(InvalidKeyFormat, "public_encrypt")
                ELSE Ok([cek |-> key, encrypted_key |-> Some(encrypted_key[1])])
    IN  [header |-> hdr1,
         result |->
            IF ~rand_ok THEN Err(InvalidKeyFormat, "rand_bytes")
            ELSE CASE enc.algorithm = "Rsa1_5" -> wrap("PKCS1")
                   [] enc.algorithm = "RsaOaep" -> wrap("PKCS1_OAEP")
                   [] enc.algorithm = "RsaOaep256" -> Panic
                   [] enc.algorithm = "RsaOaep384" -> Panic
                   [] enc.algorithm = "RsaOaep512" -> Panic]

(***************************************************************************)
(* RsaesJweDecrypter::decrypt.  [result, trace]: what the call returns and *)
(* the steps it took on the way.                                           *)
(***************************************************************************)
\* check_key_len without the comparison.
check_key_len_skipped(key, key_len) == Ok(key)

check_key_len(key, key_len) ==
    IF Len(key) # key_len THEN Err(InvalidJweFormat, "The key size is expected to be key_len")
    ELSE Ok(key)

\* decrypt from the private key on: the variant's transform and the check
\* of the recovered key's length.
unwrap_key(dec, encrypted_key, key_len) ==
    LET rsa == dec.private_key
        unwrap(padding) ==
            LET key == public_decrypt(rsa, encrypted_key, padding)
            IN  [result |-> IF key = None THEN Err(InvalidJweFormat, "public_decrypt")
                            ELSE check_key_len(key[1], key_len),
                 trace |-> <<"private_key.rsa", "public_decrypt">>]
    IN  CASE dec.algorithm = "Rsa1_5" -> unwrap("PKCS1")
          [] dec.algorithm = "RsaOaep" -> unwrap("PKCS1_OAEP")
          [] dec.algorithm = "RsaOaep256" -> [result |-> Panic, trace |-> <<"private_key.rsa", "todo">>]
          [] dec.algorithm = "RsaOaep384" -> [result |-> Panic, trace |-> <<"private_key.rsa", "todo">>]
          [] dec.algorithm = "RsaOaep512" -> [result |-> Panic, trace |-> <<"private_key.rsa", "todo">>]

\* decrypt reading an absent wrapped key as no bytes (unwrap_or(&[])).
decrypt_absent_as_empty(dec, hdr, encrypted_key, key_len) ==
    unwrap_key(dec,
               IF encrypted_key = None
               THEN [n |-> dec.private_key.n, len |-> 0,
                     em |-> [bt |-> "raw", msg |-> <<>>], k |-> 0]
               ELSE encrypted_key[1],
               key_len)

decrypt(dec, hdr, encrypted_key, key_len) ==
    IF encrypted_key = None
    THEN [result |-> Err(InvalidJweFormat, "A encrypted_key is required."), trace |-> <<>>]
    ELSE unwrap_key(dec, encrypted_key[1], key_len)

(***************************************************************************)
(* The inputs the callers draw from.                                       *)
(***************************************************************************)
MaxShortLen == 1        \* CEK lengths 0..MaxShortLen, besides the longer ones
MaxSeed == 1            \* random streams 0..MaxSeed

\* base64url without padding of a byte string: how a JWK carries a number.
Base64Char(x) ==
    CASE x <= 25 -> x + 65
      [] x <= 51 -> x + 71
      [] x <= 61 -> x - 4
      [] x = 62 -> 45
      [] x = 63 -> 95

encode_config(b) ==
    LET at(i) == IF i <= Len(b) THEN b[i] ELSE 0
        sx(j) == LET g == 3 * ((j - 1) \div 4)
                     r == (j - 1) % 4
                 IN  CASE r = 0 -> at(g + 1) \div 4
                       [] r = 1 -> (at(g + 1) % 4) * 16 + at(g + 2) \div 16
                       [] r = 2 -> (at(g + 2) % 16) * 4 + at(g + 3) \div 64
                       [] r = 3 -> at(g + 3) % 64
    IN  [j \in 1..((8 * Len(b) + 5) \div 6) |-> Base64Char(sx(j))]

JsonString(chars) == [type |-> "String", s |-> chars]
JsonNumber == [type |-> "Number", s |-> <<>>]

\* A modulus of exactly `bits` bits: top bit set, odd.
Modulus(bits) ==
    [i \in 1..((bits + 7) \div 8) |-> IF i = 1 THEN 2 ^ ((bits - 1) % 8) ELSE 1]

ModulusBits == {1024, 2040, 2041, 2047, 2048}

\* A private RSA JWK with every field in place and no restriction.
BaseJwk ==
    [kty |-> "RSA", use |-> None, key_ops |-> None, alg |-> None, kid |-> Some("kid-1"),
     params |-> [n |-> Some(JsonString(encode_config(Modulus(2048)))),
                 e |-> Some(JsonString(encode_config(<<1, 0, 1>>))),
                 d |-> Some(JsonString(encode_config(<<5, 1>>))),
                 p |-> Some(JsonString(encode_config(<<7>>))),
                 q |-> Some(JsonString(encode_config(<<11>>))),
                 dp |-> Some(JsonString(encode_config(<<3>>))),
                 dq |-> Some(JsonString(encode_config(<<0, 9>>))),
                 qi |-> Some(JsonString(encode_config(<<2>>)))]]

\* Absent, not a string, a character outside the alphabet, an impossible length.
BadParameters == {None, Some(JsonNumber), Some(JsonString(<<33, 65, 66, 67>>)),
                  Some(JsonString(<<65>>))}

KeyOps == {{"encrypt", "wrapKey", "decrypt", "unwrapKey"}, {"encrypt", "wrapKey"},
           {"decrypt", "unwrapKey"}, {"encrypt", "decrypt"}, {}}

\* BaseJwk and every JWK that differs from it in one member.
Jwks ==
    {BaseJwk, [BaseJwk EXCEPT !.kty = "EC"], [BaseJwk EXCEPT !.kid = None]}
    \cup {[BaseJwk EXCEPT !.use = Some(u)] : u \in {"enc", "sig"}}
    \cup {[BaseJwk EXCEPT !.key_ops = Some(ops)] : ops \in KeyOps}
    \cup {[BaseJwk EXCEPT !.alg = Some(name(a))] : a \in RsaesJweAlgorithm}
    \cup {[BaseJwk EXCEPT !.alg = Some("dir")]}
    \cup {[BaseJwk EXCEPT !.params[f] = v] :
            f \in {"n", "e", "d", "p", "q", "dp", "dq", "qi"}, v \in BadParameters}
    \cup {[BaseJwk EXCEPT !.params.n = Some(JsonString(encode_config(Modulus(b))))] :
            b \in ModulusBits}

Headers == {None, Some("A128KW")}

CekLens == (0..MaxShortLen) \cup {16, 215, 246}
KeyLens == (0..MaxShortLen) \cup {16}

\* What a holder of the private key makes of msg with the private primitive
\* and block type 1 (a signature block): what public_decrypt undoes.
SignatureBlock(rsa, msg) ==
    [n |-> rsa.n, len |-> rsa_size(rsa), em |-> [bt |-> "PKCS1_type_1", msg |-> msg], k |-> -1]

\* Bytes that are no block of the key, of the key's length and one longer.
RawBlock(rsa, extra) ==
    [n |-> rsa.n, len |-> rsa_size(rsa) + extra, em |-> [bt |-> "raw", msg |-> <<>>], k |-> 0]

\* The wrapped keys a caller of decrypt may pass.
WrappedKeys(rsa) ==
    {None}
    \cup (IF sent # None /\ IsOk(sent[1].result) THEN {sent[1].result.val.encrypted_key} ELSE {})
    \cup {Some(SignatureBlock(rsa, rand_bytes(l, 1))) : l \in {1, 16}}
    \cup {Some(RawBlock(rsa, x)) : x \in {0, 1}}

\* The JWKs of the callers that go on to wrap and unwrap keys: usable by
\* both factories, with moduli of 256 and of 257 bytes.
WrapJwks ==
    {BaseJwk, [BaseJwk EXCEPT !.params.n = Some(JsonString(encode_config(Modulus(2056))))]}

(***************************************************************************)
(* The RSAES state machine: a caller holding one algorithm value and one   *)
(* JWK builds an Encrypter and a Decrypter from them, once each, and wraps *)
(* and unwraps keys with them.  A panic ends the process.                  *)
(***************************************************************************)
InitRsa(jwks) ==
    /\ algorithm \in RsaesJweAlgorithm
    /\ jwk \in jwks
    /\ header \in Headers
    /\ encrypter = None
    /\ decrypter = None
    /\ made = None
    /\ sent = None
    /\ rcvd = None
    /\ panicked = FALSE
    /\ gcm_enc = None
    /\ gcm_dec = None

Init == InitRsa(WrapJwks)

EncrypterFromJwk ==
    /\ ~panicked
    /\ encrypter = None
    /\ \E der_ok \in DerOutcomes(algorithm) :
        LET r == encrypter_from_jwk(algorithm, jwk, der_ok)
        IN  /\ made' = Some([factory |-> "encrypter", result |-> r])
            /\ encrypter' = IF IsOk(r) THEN Some(r.val) ELSE None
    /\ UNCHANGED <<algorithm, jwk, header, decrypter, sent, rcvd, panicked, gcm_vars>>

DecrypterFromJwk ==
    /\ ~panicked
    /\ decrypter = None
    /\ \E der_ok \in DerOutcomes(algorithm) :
        LET r == decrypter_from_jwk(algorithm, jwk, der_ok)
        IN  /\ made' = Some([factory |-> "decrypter", result |-> r])
            /\ decrypter' = IF IsOk(r) THEN Some(r.val) ELSE None
    /\ UNCHANGED <<algorithm, jwk, header, encrypter, sent, rcvd, panicked, gcm_vars>>

Encrypt ==
    /\ ~panicked
    /\ encrypter # None
    /\ \E key_len \in CekLens, rand_ok \in BOOLEAN, seed \in 0..MaxSeed :
        LET out == encrypt(encrypter[1], header, key_len, rand_ok, seed)
        IN  /\ header' = out.header
            /\ sent' = Some([header_before |-> header, key_len |-> key_len,
                             result |-> out.result])
            /\ panicked' = (out.result = Panic)
    /\ UNCHANGED <<algorithm, jwk, encrypter, decrypter, made, rcvd, gcm_vars>>

Decrypt ==
    /\ ~panicked
    /\ decrypter # None
    /\ \E encrypted_key \in WrappedKeys(decrypter[1].private_key), key_len \in KeyLens :
        LET out == decrypt(decrypter[1], header, encrypted_key, key_len)
        IN  /\ rcvd' = Some([encrypted_key |-> encrypted_key, key_len |-> key_len,
                             result |-> out.result, trace |-> out.trace])
            /\ panicked' = (out.result = Panic)
    /\ UNCHANGED <<algorithm, jwk, header, encrypter, decrypter, made, sent, gcm_vars>>

Next == EncrypterFromJwk \/ DecrypterFromJwk \/ Encrypt \/ Decrypt

Spec == Init /\ [][Next]_vars

(***************************************************************************)
(* The factories alone, over every JWK of Jwks.                            *)
(***************************************************************************)
InitJwk == InitRsa(Jwks)

NextJwk == EncrypterFromJwk \/ DecrypterFromJwk

SpecJwk == InitJwk /\ [][NextJwk]_vars

(***************************************************************************)
(* The claims about the RSAES family.                                      *)
(***************************************************************************)
CanonicalName ==
    [a \in RsaesJweAlgorithm |->
        CASE a = "Rsa1_5" -> "RSA1_5"
          [] a = "RsaOaep" -> "RSA-OAEP"
          [] a = "RsaOaep256" -> "RSA-OAEP-256"
          [] a = "RsaOaep384" -> "RSA-OAEP-384"
          [] a = "RsaOaep512" -> "RSA-OAEP-512"]

\* C1: for RSA1_5 and RSA-OAEP, with an Encrypter and a Decrypter built from
\* the same key pair, decrypt of the wrapped key that encrypt returned, with
\* the same CEK length (16, 24 or 32 bytes), succeeds and returns the CEK
\* that encrypt returned.
C1_RoundTrip ==
    (/\ algorithm \in {"Rsa1_5", "RsaOaep"}
     /\ encrypter # None /\ decrypter # None
     /\ sent # None /\ rcvd # None
     /\ IsOk(sent[1].result)
     /\ sent[1].key_len \in {16, 24, 32}
     /\ rcvd[1].encrypted_key = sent[1].result.val.encrypted_key
     /\ rcvd[1].key_len = sent[1].key_len)
    => rcvd[1].result = Ok(sent[1].result.val.cek)

\* C2: no call of encrypt or decrypt ends in a panic: each returns a result
\* or an error value.
C2_NoPanic ==
    /\ ~panicked
    /\ sent # None => sent[1].result.kind \in {"Ok", "Err"}
    /\ rcvd # None => rcvd[1].result.kind \in {"Ok", "Err"}

\* C3: decrypter_from_jwk checks `use` as encrypter_from_jwk does: absent or
\* "enc" passes the check, any other value is rejected with an invalid-key
\* error.
C3_DecrypterUseCheck ==
    (made # None /\ made[1].factory = "decrypter")
    => /\ (jwk.use = None \/ jwk.use = Some("enc"))
            => ~(made[1].result.kind = "Err"
                 /\ made[1].result.msg = "A parameter use must be sig")
       /\ (jwk.use # None /\ jwk.use # Some("enc"))
            => IsErr(made[1].result, InvalidKeyFormat)

\* C4: a call of encrypt that does not return success leaves the header's
\* algorithm field as it was before the call.
C4_EncryptAtomic ==
    (sent # None /\ ~IsOk(sent[1].result)) => header = sent[1].header_before

\* C5: after a successful encrypt(header, cek_length) the header's algorithm
\* field is the variant's canonical name, whatever it was before, the CEK has
\* cek_length bytes and the wrapped key is present.
C5_EncryptSuccess ==
    (sent # None /\ IsOk(sent[1].result))
    => /\ header = Some(CanonicalName[algorithm])
       /\ Len(sent[1].result.val.cek) = sent[1].key_len
       /\ sent[1].result.val.encrypted_key # None

C5_Witness ==
    /\ sent # None /\ IsOk(sent[1].result)
    /\ sent[1].header_before = Some("A128KW")
    /\ sent[1].key_len = 16
    /\ algorithm = "RsaOaep"

\* C6: every Encrypter and Decrypter holds a key whose modulus has at least
\* 2048 bits: the factories reject every JWK with a shorter modulus.
C6_NoUndersizedKey ==
    /\ encrypter # None => num_bits(encrypter[1].public_key.n) >= 2048
    /\ decrypter # None => num_bits(decrypter[1].private_key.n) >= 2048

\* C7: decrypt with the wrapped key absent fails with an invalid-message
\* error before it takes any step: no use of the private key, no variant's
\* transform.
C7_AbsentWrappedKey ==
    (rcvd # None /\ rcvd[1].encrypted_key = None)
    => /\ IsErr(rcvd[1].result, InvalidJweFormat)
       /\ rcvd[1].trace = <<>>

C7_Witness ==
    /\ rcvd # None /\ rcvd[1].encrypted_key = None
    /\ algorithm = "RsaOaep512"
    /\ IsErr(rcvd[1].result, InvalidJweFormat)

\* C8: a successful decrypt returns a key of exactly cek_length bytes, and a
\* wrapped key whose recovered key has any other length makes decrypt fail
\* with an invalid-message error.
C8_RecoveredLength ==
    rcvd # None
    => /\ IsOk(rcvd[1].result) => Len(rcvd[1].result.val) = rcvd[1].key_len
       /\ (/\ algorithm = "Rsa1_5"
           /\ rcvd[1].encrypted_key # None
           /\ rcvd[1].encrypted_key[1].em.bt = "PKCS1_type_1"
           /\ rcvd[1].encrypted_key[1].k = -1
           /\ Len(rcvd[1].encrypted_key[1].em.msg) # rcvd[1].key_len)
          => IsErr(rcvd[1].result, InvalidJweFormat)

C8_Witness ==
    /\ rcvd # None
    /\ rcvd[1].encrypted_key # None
    /\ rcvd[1].encrypted_key[1].em.bt = "PKCS1_type_1"
    /\ Len(rcvd[1].encrypted_key[1].em.msg) = 1
    /\ rcvd[1].key_len = 16
    /\ rcvd[1].result = Err(InvalidJweFormat, "The key size is expected to be key_len")

\* The characters of base64url.
Base64UrlAlphabet == (65..90) \cup (97..122) \cup (48..57) \cup {45, 95}

ParameterBad(v) ==
    \/ v = None
    \/ v[1].type # "String"
    \/ \E i \in 1..Len(v[1].s) : v[1].s[i] \notin Base64UrlAlphabet
    \/ Len(v[1].s) % 4 = 1

FactoryMustFail(factory) ==
    LET ops == IF factory = "encrypter" THEN {"encrypt", "wrapKey"}
               ELSE {"decrypt", "unwrapKey"}
        required == IF factory = "encrypter" THEN {"n", "e"}
                    ELSE {"n", "e", "d", "p", "q", "dp", "dq", "qi"}
    IN  \/ jwk.kty # "RSA"
        \/ jwk.alg # None /\ jwk.alg # Some(CanonicalName[algorithm])
        \/ jwk.key_ops # None /\ ~(ops \subseteq jwk.key_ops[1])
        \/ \E f \in required : ParameterBad(jwk.params[f])

\* C9: both factories fail with an invalid-key error when kty is not "RSA",
\* when alg is present and is not the variant's name, when the key is not for
\* both operations the factory needs, or when a required parameter is absent,
\* not a string or not unpadded base64url; a factory that succeeds returns the
\* variant's tag and the JWK's key id.
C9_FactoriesValidate ==
    made # None
    => /\ FactoryMustFail(made[1].factory) => IsErr(made[1].result, InvalidKeyFormat)
       /\ IsOk(made[1].result)
            => /\ made[1].result.val.algorithm = algorithm
               /\ made[1].result.val.key_id = jwk.kid

C9_Witness ==
    /\ made # None /\ made[1].factory = "decrypter"
    /\ jwk.params.qi = Some(JsonNumber)
    /\ IsErr(made[1].result, InvalidKeyFormat)

(***************************************************************************)
(* AES-GCM (src/jwe/enc/aes_gcm.rs).                                       *)
(***************************************************************************)
AesGcmJweEncryption == {"A128Gcm", "A192Gcm", "A256Gcm"}

\* key_len with the arm of A192Gcm a copy of the arm of A256Gcm.
gcm_key_len_a192_as_a256(enc) ==
    CASE enc = "A128Gcm" -> 16
      [] enc = "A192Gcm" -> 32
      [] enc = "A256Gcm" -> 32

gcm_key_len(enc) ==
    CASE enc = "A128Gcm" -> 16
      [] enc = "A192Gcm" -> 24
      [] enc = "A256Gcm" -> 32

gcm_iv_len(enc) == 12

cipher(enc) ==
    CASE enc = "A128Gcm" -> [name |-> "aes_128_gcm", key_len |-> 16, iv_len |-> 12]
      [] enc = "A192Gcm" -> [name |-> "aes_192_gcm", key_len |-> 24, iv_len |-> 12]
      [] enc = "A256Gcm" -> [name |-> "aes_256_gcm", key_len |-> 32, iv_len |-> 12]

(***************************************************************************)
(* openssl::symm, with a stand-in for the cipher that keeps its shape: a   *)
(* key stream that key and IV determine is added to the data byte by byte, *)
(* and the tag is a keyed checksum of IV, AAD and ciphertext in which      *)
(* every byte has an odd weight, so that a change of one byte changes it.  *)
(***************************************************************************)
RECURSIVE SumBytes(_)
SumBytes(b) == IF b = <<>> THEN 0 ELSE (b[1] + SumBytes(Tail(b))) % 256

RECURSIVE WeightedSum(_, _)
WeightedSum(b, i) ==
    IF i > Len(b) THEN 0 ELSE ((2 * i + 1) * b[i] + WeightedSum(b, i + 1)) % 256

KeyStream(c, key, iv, i) == (c.key_len + SumBytes(key) + 3 * SumBytes(iv) + 7 * i) % 256

TagLen == 16

GcmTag(c, key, iv, aad, data) ==
    LET t == (c.key_len + 5 * SumBytes(key) + WeightedSum(iv, 1) + 3 * WeightedSum(aad, 1)
              + Len(aad) + WeightedSum(data, 1) + 11 * Len(data)) % 256
    IN  [j \in 1..TagLen |-> (t + 17 * j) % 256]

\* Crypter::new: a cipher with an IV length panics when given no IV.
\* encrypt_aead: Option of [data, tag], the tag of the 16 bytes of the buffer.
encrypt_aead(c, key, iv, aad, data) ==
    IF iv = None THEN Panic
    ELSE IF Len(iv[1]) = 0 THEN Err("ErrorStack", "iv")
    ELSE LET out == [i \in 1..Len(data) |-> (data[i] + KeyStream(c, key, iv[1], i)) % 256]
         IN  Ok([data |-> out, tag |-> GcmTag(c, key, iv[1], aad, out)])

\* The cipher without its authentication: the key stream taken off again.
stream_decrypt(c, key, iv, data) ==
    [i \in 1..Len(data) |-> (data[i] + 256 - KeyStream(c, key, iv, i)) % 256]

\* decrypt_aead: set_tag takes 1 to 16 bytes and finalize compares as many
\* bytes of the tag as were set.
decrypt_aead(c, key, iv, aad, data, tag) ==
    IF iv = None THEN Panic
    ELSE IF Len(iv[1]) = 0 THEN Err("ErrorStack", "iv")
    ELSE IF Len(tag) < 1 \/ Len(tag) > 16 THEN Err("ErrorStack", "set_tag")
    ELSE IF tag # SubSeq(GcmTag(c, key, iv[1], aad, data), 1, Len(tag))
    THEN Err("ErrorStack", "finalize")
    ELSE Ok(stream_decrypt(c, key, iv[1], data))

\* Every failure of the closure becomes the one error of the function.
gcm_map_err(r, e) == IF r.kind = "Err" THEN Err(e, "openssl") ELSE r

gcm_encrypt(enc, key, iv, message, aad) ==
    LET expected_len == gcm_key_len(enc)
    IN  IF Len(key) # expected_len
        THEN Err(InvalidKeyFormat, "The length of content encryption key must be expected_len")
        ELSE LET r == encrypt_aead(cipher(enc), key, iv, aad, message)
             IN  IF IsOk(r)
                 THEN Ok([encrypted_message |-> r.val.data, tag |-> Some(r.val.tag)])
                 ELSE gcm_map_err(r, InvalidKeyFormat)

\* decrypt calling the cipher without the tag.
gcm_decrypt_unauthenticated(enc, key, iv, encrypted_message, aad, tag) ==
    LET expected_len == gcm_key_len(enc)
    IN  IF Len(key) # expected_len
        THEN Err(InvalidJweFormat, "The length of content encryption key must be expected_len")
        ELSE IF tag = None THEN Err(InvalidJweFormat, "A tag value is required.")
        ELSE IF iv = None THEN Panic
        ELSE Ok(stream_decrypt(cipher(enc), key, iv[1], encrypted_message))

gcm_decrypt(enc, key, iv, encrypted_message, aad, tag) ==
    LET expected_len == gcm_key_len(enc)
    IN  IF Len(key) # expected_len
        THEN Err(InvalidJweFormat, "The length of content encryption key must be expected_len")
        ELSE IF tag = None THEN Err(InvalidJweFormat, "A tag value is required.")
        ELSE gcm_map_err(decrypt_aead(cipher(enc), key, iv, aad, encrypted_message, tag[1]),
                         InvalidJweFormat)

(***************************************************************************)
(* The inputs of the AES-GCM callers.                                      *)
(***************************************************************************)
MaxMsgLen == 2          \* messages of 0..MaxMsgLen bytes, besides "hello"
MaxFill == 2            \* keys of the bytes 1..MaxFill

Fill(l, b) == [i \in 1..l |-> b]

\* Keys of the three variants' sizes and of no variant's size.
GcmKeys == {Fill(l, b) : l \in {0, 15, 16, 24, 32, 33}, b \in 1..MaxFill}
GcmIvs == {None, Some(Fill(12, 3)), Some([i \in 1..12 |-> i])}
GcmMessages ==
    {[i \in 1..l |-> (b + i) % 256] : l \in 0..MaxMsgLen, b \in {0, 254}}
    \cup {<<104, 101, 108, 108, 111>>}
GcmAads == {<<>>, <<1, 2>>}
Deltas == {1, 128, 255}

\* b with the byte at i changed by d.
ChangeByte(b, i, d) == [b EXCEPT ![i] = (@ + d) % 256]

\* What the call of decrypt after an encrypt call starts from: the inputs of
\* encrypt and what it returned (after a failure: some bytes, some tag).
GcmReceived(e) ==
    [enc |-> e.enc, key |-> e.key, iv |-> e.iv, aad |-> e.aad,
     encrypted_message |-> IF IsOk(e.result) THEN e.result.val.encrypted_message
                           ELSE e.message,
     tag |-> IF IsOk(e.result) THEN e.result.val.tag ELSE Some(Fill(16, 0))]

\* The inputs of decrypt: those received, with at most one of them replaced.
GcmDecryptInputs(e) ==
    LET r == GcmReceived(e)
    IN  {r}
        \cup {[r EXCEPT !.enc = x] : x \in AesGcmJweEncryption}
        \cup {[r EXCEPT !.key = x] : x \in GcmKeys}
        \cup {[r EXCEPT !.iv = x] : x \in GcmIvs}
        \cup {[r EXCEPT !.aad = x] : x \in GcmAads}
        \cup {[r EXCEPT !.encrypted_message = ChangeByte(@, i, d)] :
                i \in 1..Len(r.encrypted_message), d \in Deltas}
        \cup {[r EXCEPT !.encrypted_message = x] :
                x \in {Append(r.encrypted_message, 0)}}
        \cup {[r EXCEPT !.tag = Some(ChangeByte(@[1], i, d))] : i \in 1..16, d \in Deltas}
        \cup {[r EXCEPT !.tag = x] : x \in {None, Some(SubSeq(r.tag[1], 1, 12)),
                                            Some(Append(r.tag[1], 0)), Some(<<>>)}}

(***************************************************************************)
(* The AES-GCM state machine.  The functions keep no state, so a run is    *)
(* one message: it is encrypted once, and what arrives is decrypted once.  *)
(* A panic ends the process.                                               *)
(***************************************************************************)
InitGcm ==
    /\ algorithm = "Rsa1_5"
    /\ jwk = BaseJwk
    /\ header = None
    /\ encrypter = None
    /\ decrypter = None
    /\ made = None
    /\ sent = None
    /\ rcvd = None
    /\ panicked = FALSE
    /\ gcm_enc = None
    /\ gcm_dec = None

GcmEncrypt ==
    /\ ~panicked
    /\ gcm_enc = None
    /\ \E enc \in AesGcmJweEncryption, key \in GcmKeys, iv \in GcmIvs,
          message \in GcmMessages, aad \in GcmAads :
        LET r == gcm_encrypt(enc, key, iv, message, aad)
        IN  /\ gcm_enc' = Some([enc |-> enc, key |-> key, iv |-> iv, message |-> message,
                                aad |-> aad, result |-> r])
            /\ gcm_dec' = None
            /\ panicked' = (r = Panic)
    /\ UNCHANGED <<algorithm, jwk, header, encrypter, decrypter, made, sent, rcvd>>

GcmDecrypt ==
    /\ ~panicked
    /\ gcm_enc # None
    /\ gcm_dec = None
    /\ \E in \in GcmDecryptInputs(gcm_enc[1]) :
        LET r == gcm_decrypt(in.enc, in.key, in.iv, in.encrypted_message, in.aad, in.tag)
        IN  /\ gcm_dec' = Some([enc |-> in.enc, key |-> in.key, iv |-> in.iv,
                                encrypted_message |-> in.encrypted_message,
                                aad |-> in.aad, tag |-> in.tag, result |-> r])
            /\ panicked' = (r = Panic)
    /\ UNCHANGED <<algorithm, jwk, header, encrypter, decrypter, made, sent, rcvd, gcm_enc>>

NextGcm == GcmEncrypt \/ GcmDecrypt

SpecGcm == InitGcm /\ [][NextGcm]_vars

(***************************************************************************)
(* The claims about the AES-GCM family.                                    *)
(***************************************************************************)
OneByteChanged(a, b) ==
    /\ Len(a) = Len(b)
    /\ Cardinality({i \in 1..Len(a) : a[i] # b[i]}) = 1

\* The encrypt call was on a key of the variant's size and a 12-byte IV, it
\* returned, and decrypt was called on the same variant, key, IV and AAD.
C10_SameCall ==
    /\ gcm_enc # None /\ gcm_dec # None
    /\ IsOk(gcm_enc[1].result)
    /\ gcm_enc[1].iv # None /\ Len(gcm_enc[1].iv[1]) = 12
    /\ gcm_dec[1].enc = gcm_enc[1].enc
    /\ gcm_dec[1].key = gcm_enc[1].key
    /\ gcm_dec[1].iv = gcm_enc[1].iv
    /\ gcm_dec[1].aad = gcm_enc[1].aad

\* C10: when encrypt(key, iv, msg, aad) returns (ciphertext, tag), the tag is
\* present and 16 bytes long; decrypt of that ciphertext and tag under the
\* same key, IV and AAD returns msg; and decrypt with one byte of the
\* ciphertext or of the tag changed fails with the one invalid-message error.
C10_RoundTripAndTamper ==
    /\ (gcm_enc # None /\ IsOk(gcm_enc[1].result))
        => /\ gcm_enc[1].result.val.tag # None
           /\ Len(gcm_enc[1].result.val.tag[1]) = 16
    /\ C10_SameCall
        => LET ct == gcm_enc[1].result.val.encrypted_message
               tag == gcm_enc[1].result.val.tag
               d == gcm_dec[1]
           IN  /\ (d.encrypted_message = ct /\ d.tag = tag)
                    => d.result = Ok(gcm_enc[1].message)
               /\ (\/ OneByteChanged(d.encrypted_message, ct) /\ d.tag = tag
                   \/ /\ d.encrypted_message = ct
                      /\ d.tag # None
                      /\ OneByteChanged(d.tag[1], tag[1]))
                    => d.result = Err(InvalidJweFormat, "openssl")

\* "hello" under A256GCM with the empty AAD, the last byte of the tag changed.
C10_Witness ==
    /\ C10_SameCall
    /\ gcm_enc[1].enc = "A256Gcm"
    /\ gcm_enc[1].message = <<104, 101, 108, 108, 111>>
    /\ gcm_enc[1].aad = <<>>
    /\ gcm_dec[1].encrypted_message = gcm_enc[1].result.val.encrypted_message
    /\ gcm_dec[1].tag # None
    /\ Len(gcm_dec[1].tag[1]) = 16
    /\ gcm_dec[1].tag[1][16] # gcm_enc[1].result.val.tag[1][16]
    /\ gcm_dec[1].result = Err(InvalidJweFormat, "openssl")

\* The key sizes of the variants, in bytes.
GcmKeySize ==
    [e \in AesGcmJweEncryption |->
        CASE e = "A128Gcm" -> 16
          [] e = "A192Gcm" -> 24
          [] e = "A256Gcm" -> 32]

\* C11: with a key whose length is not the variant's key size, encrypt and
\* decrypt fail, whatever the IV, message, AAD and tag (an absent IV or tag
\* included), and they fail on the check of the key length: the error is that
\* of the check, not one of the cipher, of the tag or a panic.
C11_WrongKeySize ==
    /\ (gcm_enc # None /\ Len(gcm_enc[1].key) # GcmKeySize[gcm_enc[1].enc])
        => gcm_enc[1].result =
            Err(InvalidKeyFormat, "The length of content encryption key must be expected_len")
    /\ (gcm_dec # None /\ Len(gcm_dec[1].key) # GcmKeySize[gcm_dec[1].enc])
        => gcm_dec[1].result =
            Err(InvalidJweFormat, "The length of content encryption key must be expected_len")

\* decrypt under A192GCM with the 32-byte key of A256GCM, no IV and no tag.
C11_Witness ==
    /\ gcm_dec # None
    /\ gcm_dec[1].enc = "A192Gcm"
    /\ Len(gcm_dec[1].key) = 32
    /\ gcm_dec[1].iv = None
    /\ gcm_dec[1].tag = None
    /\ gcm_dec[1].result.kind = "Err"
    /\ ~panicked

====
